---- MODULE Spec2Model ----
(***************************************************************************)
(* Model of pocketcasts/api.py: the Pocketcasts client.  One client        *)
(* instance is modelled.  Every method is one action; the HTTP responses   *)
(* the server gives during the call are the action's inputs.  The state    *)
(* records the client's fields and what the most recent call did: the      *)
(* requests it sent (with the responses it got), the exception it raised   *)
(* or the value it returned.                                               *)
(***************************************************************************)
EXTENDS Integers, Sequences, FiniteSets, TLC

VARIABLES
    phase,      \* "new" before __init__, "ready" after it returned, "failed" after it raised
    username,   \* self._username
    password,   \* self._password
    authtoken,  \* self._authtoken
    lastOp,     \* name of the most recent method call
    lastArgs,   \* the arguments of that call
    err,        \* message of the exception that call raised, "" when it returned
    result,     \* the value that call returned (NoneV when it raised or returns nothing)
    io,         \* the requests that call sent, in order, each with the response it got
    prevPods,   \* Podcast objects returned by the call before lastOp, when that was a resolving method
    prevNested, \* TRUE when the call before lastOp was a resolving method that returned
    logins,     \* number of login requests sent so far
    ncalls      \* number of endpoint method calls made so far

vars == <<phase, username, password, authtoken, lastOp, lastArgs, err, result, io,
          prevPods, prevNested, logins, ncalls>>

----------------------------------------------------------------------------
(* Bounds *)

MaxEps == 2
MaxCalls == 2

PodUUIDs == {"p1", "p2"}
PayloadUUIDs == {"p1"}
EpUUIDs == {"e1", "e2"}
EpNames == <<"e1", "e2", "e3", "e4">>
Tokens == {"tokA", "tokB"}
Emails == {"a@x"}
Passwords == {"pw"}

(* Object identities: the objects made during the n-th call (by the caller
   for its arguments, then by the method) are numbered from n * IdsPerCall *)
IdsPerCall == MaxEps + 2
nextId == ncalls * IdsPerCall

----------------------------------------------------------------------------
(* Python values *)

NoneV == [none |-> TRUE]
Dict(d) == [dict |-> d]

Has(d, k) == k \in DOMAIN d
Pop(d, k) == [x \in DOMAIN d \ {k} |-> d[x]]

SeqsUpTo(S, n) == UNION {[1..k -> S] : k \in 0..n}

(* Responses: the transport raised, the body is not JSON, or a JSON body *)
TransportFail == [kind |-> "fail"]
TextBody == [kind |-> "text"]
Json(j) == [kind |-> "json", json |-> j]

(* Outcome of a method body: exception message ("" when it returned), value,
   requests sent with their responses, identity of the next object *)
Raised(e, sent, nid) == [err |-> e, value |-> NoneV, io |-> sent, nid |-> nid]
Returned(v, sent, nid) == [err |-> "", value |-> v, io |-> sent, nid |-> nid]

(* Entity constructors: Podcast(uuid, api, **kw), Episode(uuid, podcast, **kw) *)
Podcast(oid, uuid, kw) == [oid |-> oid, uuid |-> uuid, kw |-> kw]
Episode(uuid, podcast, kw) == [uuid |-> uuid, podcast |-> podcast, kw |-> kw]

----------------------------------------------------------------------------
(* _make_req *)

AuthHeader(tok) == "Bearer " \o tok

(* _make_req that leaves a v the caller supplied in place *)
make_req_keeps_v(tok, url, method, data, resp) ==
    LET headers == [Authorization |-> AuthHeader(tok)] IN
    IF method = "GET" THEN
        LET req == [verb |-> "GET", url |-> url, headers |-> headers, body |-> NoneV] IN
        [err |-> IF resp.kind = "fail" THEN "TransportError" ELSE "",
         io |-> <<[req |-> req, resp |-> resp]>>]
    ELSE IF method = "JSON" THEN
        LET d0 == IF Has(data, "none") THEN <<>> ELSE data.dict
            d1 == [k \in DOMAIN d0 \cup {"v"} |-> IF Has(d0, k) THEN d0[k] ELSE 1]
            req == [verb |-> "POST", url |-> url, headers |-> headers, body |-> d1] IN
        [err |-> IF resp.kind = "fail" THEN "TransportError" ELSE "",
         io |-> <<[req |-> req, resp |-> resp]>>]
    ELSE [err |-> "Invalid method", io |-> <<>>]

(* err: the exception _make_req raises ("" when it returns resp);
   io: the request it handed to requests.request, with the response *)
make_req(tok, url, method, data, resp) ==
    LET headers == [Authorization |-> AuthHeader(tok)] IN
    IF method = "GET" THEN
        LET req == [verb |-> "GET", url |-> url, headers |-> headers, body |-> NoneV] IN
        [err |-> IF resp.kind = "fail" THEN "TransportError" ELSE "",
         io |-> <<[req |-> req, resp |-> resp]>>]
    ELSE IF method = "JSON" THEN
        LET d0 == IF Has(data, "none") THEN <<>> ELSE data.dict
            d1 == [k \in DOMAIN d0 \cup {"v"} |-> IF k = "v" THEN 1 ELSE d0[k]]
            req == [verb |-> "POST", url |-> url, headers |-> headers, body |-> d1] IN
        [err |-> IF resp.kind = "fail" THEN "TransportError" ELSE "",
         io |-> <<[req |-> req, resp |-> resp]>>]
    ELSE [err |-> "Invalid method", io |-> <<>>]

(* response.json()[key]: "" when it evaluates, else the exception *)
JsonKeyErr(resp, key) ==
    IF resp.kind # "json" THEN "ValueError"
    ELSE IF ~Has(resp.json, key) THEN "KeyError"
    ELSE ""

----------------------------------------------------------------------------
(* _login *)

LoginUrl == "https://api.pocketcasts.com/user/login"

(* _login that reports a failed login by its return value *)
login_returns_false(tok, user, pass, resp) ==
    LET data == Dict([email |-> user, password |-> pass])
        attempt == make_req(tok, LoginUrl, "JSON", data, resp) IN
    IF attempt.err # "" THEN [err |-> attempt.err, token |-> tok, io |-> attempt.io]
    ELSE IF JsonKeyErr(resp, "token") # ""
         THEN [err |-> "", token |-> tok, io |-> attempt.io]
         ELSE [err |-> "", token |-> resp.json.token, io |-> attempt.io]

_login(tok, user, pass, resp) ==
    LET data == Dict([email |-> user, password |-> pass])
        attempt == make_req(tok, LoginUrl, "JSON", data, resp) IN
    IF attempt.err # "" THEN [err |-> attempt.err, token |-> tok, io |-> attempt.io]
    ELSE IF JsonKeyErr(resp, "token") # ""
         THEN [err |-> "Login Failed", token |-> tok, io |-> attempt.io]
         ELSE [err |-> "", token |-> resp.json.token, io |-> attempt.io]

LoginResponses ==
    {TransportFail, TextBody, Json([message |-> "denied"])}
        \cup {Json([token |-> t]) : t \in Tokens}

LoginCount(sent) == Cardinality({i \in DOMAIN sent : sent[i].req.url = LoginUrl})

(* Pocketcasts.__init__ *)
Construct ==
    /\ phase = "new"
    /\ \E email \in Emails, pw \in Passwords, resp \in LoginResponses :
         LET r == _login("", email, pw, resp) IN
         /\ username' = email
         /\ password' = pw
         /\ authtoken' = r.token
         /\ phase' = IF r.err = "" THEN "ready" ELSE "failed"
         /\ lastOp' = "__init__"
         /\ lastArgs' = [email |-> email, password |-> pw]
         /\ err' = r.err
         /\ result' = NoneV
         /\ io' = r.io
         /\ logins' = logins + LoginCount(r.io)
    /\ UNCHANGED <<prevPods, prevNested, ncalls>>

----------------------------------------------------------------------------
(* Frame of an endpoint method call: the body's outcome r is recorded; the
   client's own fields are not assigned by any endpoint method *)

NestedOps == {"get_new_releases", "get_in_progress", "get_starred", "get_up_next"}

PodsOf(episodes) == {episodes[i].podcast : i \in DOMAIN episodes}

Done(op, args, r) ==
    /\ lastOp' = op
    /\ lastArgs' = args
    /\ err' = r.err
    /\ result' = r.value
    /\ io' = r.io
    /\ prevNested' = (lastOp \in NestedOps /\ err = "")
    /\ prevPods' = IF lastOp \in NestedOps /\ err = "" THEN PodsOf(result) ELSE {}
    /\ ncalls' = ncalls + 1
    /\ logins' = logins + LoginCount(r.io)
    /\ UNCHANGED <<phase, username, password, authtoken>>

CanCall == phase = "ready" /\ ncalls < MaxCalls

----------------------------------------------------------------------------
(* Methods returning a list of Podcast: get_top_charts, get_featured,
   get_trending, get_subscribed_podcasts, search_podcasts *)

(* for podcast in page['podcasts']: uuid = podcast.pop('uuid');
   results.append(Podcast(uuid, self, **podcast)) *)
RECURSIVE PodcastLoop(_, _, _, _, _)
PodcastLoop(entries, i, results, sent, nid) ==
    IF i > Len(entries) THEN Returned(results, sent, nid)
    ELSE IF ~Has(entries[i], "uuid") THEN Raised("KeyError", sent, nid)
    ELSE PodcastLoop(entries, i + 1,
            Append(results, Podcast(nid, entries[i].uuid, Pop(entries[i], "uuid"))),
            sent, nid + 1)

PodcastList(tok, nid, url, method, data, resp) ==
    LET attempt == make_req(tok, url, method, data, resp) IN
    IF attempt.err # "" THEN Raised(attempt.err, attempt.io, nid)
    ELSE IF JsonKeyErr(resp, "podcasts") # ""
         THEN Raised(JsonKeyErr(resp, "podcasts"), attempt.io, nid)
         ELSE PodcastLoop(resp.json.podcasts, 1, <<>>, attempt.io, nid)

get_top_charts(tok, nid, resp) ==
    PodcastList(tok, nid, "https://lists.pocketcasts.com/popular.json", "GET", NoneV, resp)

get_featured(tok, nid, resp) ==
    PodcastList(tok, nid, "https://lists.pocketcasts.com/featured.json", "GET", NoneV, resp)

get_trending(tok, nid, resp) ==
    PodcastList(tok, nid, "https://lists.pocketcasts.com/trending.json", "GET", NoneV, resp)

get_subscribed_podcasts(tok, nid, resp) ==
    PodcastList(tok, nid, "https://api.pocketcasts.com/user/podcast/list", "JSON", NoneV, resp)

search_podcasts(tok, nid, search_str, resp) ==
    PodcastList(tok, nid, "https://api.pocketcasts.com/discover/search", "JSON",
                Dict([term |-> search_str]), resp)

PodEntries == {[uuid |-> u, title |-> "t"] : u \in PayloadUUIDs} \cup {[title |-> "t"]}

PodListResponses ==
    {TransportFail, Json([error |-> "x"])}
        \cup {Json([podcasts |-> s]) : s \in SeqsUpTo(PodEntries, MaxEps)}

GetTopCharts ==
    /\ CanCall
    /\ \E resp \in PodListResponses :
         Done("get_top_charts", NoneV, get_top_charts(authtoken, nextId, resp))

GetFeatured ==
    /\ CanCall
    /\ \E resp \in PodListResponses :
         Done("get_featured", NoneV, get_featured(authtoken, nextId, resp))

GetTrending ==
    /\ CanCall
    /\ \E resp \in PodListResponses :
         Done("get_trending", NoneV, get_trending(authtoken, nextId, resp))

GetSubscribedPodcasts ==
    /\ CanCall
    /\ \E resp \in PodListResponses :
         Done("get_subscribed_podcasts", NoneV, get_subscribed_podcasts(authtoken, nextId, resp))

SearchPodcasts ==
    /\ CanCall
    /\ \E term \in {"news"}, resp \in PodListResponses :
         Done("search_podcasts", [search_str |-> term], search_podcasts(authtoken, nextId, term, resp))

----------------------------------------------------------------------------
(* get_podcast, get_podcast_episodes, get_episode, get_episode_notes *)

PodcastUrl(uuid) ==
    "https://podcast-api.pocketcasts.com/podcast/full/" \o uuid \o "/0/3/2000"

get_podcast(tok, nid, uuid, resp) ==
    LET attempt == make_req(tok, PodcastUrl(uuid), "GET", NoneV, resp) IN
    IF attempt.err # "" THEN Raised(attempt.err, attempt.io, nid)
    ELSE IF JsonKeyErr(resp, "podcast") # ""
         THEN Raised(JsonKeyErr(resp, "podcast"), attempt.io, nid)
    ELSE IF ~Has(resp.json.podcast, "uuid") THEN Raised("KeyError", attempt.io, nid)
    ELSE Returned(Podcast(nid, uuid, Pop(resp.json.podcast, "uuid")), attempt.io, nid + 1)

(* for epi in attempt['episodes']: uuid = epi.pop('uuid');
   episodes.append(Episode(uuid, podcast=pod, **epi)) *)
RECURSIVE EpisodeLoop(_, _, _, _, _, _)
EpisodeLoop(entries, i, pod, episodes, sent, nid) ==
    IF i > Len(entries) THEN Returned(episodes, sent, nid)
    ELSE IF ~Has(entries[i], "uuid") THEN Raised("KeyError", sent, nid)
    ELSE EpisodeLoop(entries, i + 1, pod,
            Append(episodes, Episode(entries[i].uuid, pod, Pop(entries[i], "uuid"))),
            sent, nid)

(* get_podcast_episodes that links the episodes to a Podcast built from the response *)
get_podcast_episodes_refetched(tok, nid, pod, sort, resp) ==
    LET attempt == make_req(tok, PodcastUrl(pod.uuid), "GET", NoneV, resp) IN
    IF attempt.err # "" THEN Raised(attempt.err, attempt.io, nid)
    ELSE IF JsonKeyErr(resp, "podcast") # ""
         THEN Raised(JsonKeyErr(resp, "podcast"), attempt.io, nid)
    ELSE IF ~Has(resp.json.podcast, "episodes") THEN Raised("KeyError", attempt.io, nid)
    ELSE EpisodeLoop(resp.json.podcast.episodes, 1,
                     Podcast(nid, pod.uuid, Pop(resp.json.podcast, "episodes")),
                     <<>>, attempt.io, nid + 1)

get_podcast_episodes(tok, nid, pod, sort, resp) ==
    LET attempt == make_req(tok, PodcastUrl(pod.uuid), "GET", NoneV, resp) IN
    IF attempt.err # "" THEN Raised(attempt.err, attempt.io, nid)
    ELSE IF JsonKeyErr(resp, "podcast") # ""
         THEN Raised(JsonKeyErr(resp, "podcast"), attempt.io, nid)
    ELSE IF ~Has(resp.json.podcast, "episodes") THEN Raised("KeyError", attempt.io, nid)
    ELSE EpisodeLoop(resp.json.podcast.episodes, 1, pod, <<>>, attempt.io, nid)

get_episode(tok, nid, pod, e_uuid, resp) ==
    LET attempt == make_req(tok, "https://api.pocketcasts.com/user/episode", "JSON",
                            Dict([uuid |-> e_uuid]), resp) IN
    IF attempt.err # "" THEN Raised(attempt.err, attempt.io, nid)
    ELSE IF resp.kind # "json" THEN Raised("ValueError", attempt.io, nid)
    ELSE IF ~Has(resp.json, "uuid") THEN Raised("KeyError", attempt.io, nid)
    ELSE Returned(Episode(e_uuid, pod, Pop(resp.json, "uuid")), attempt.io, nid)

get_episode_notes(tok, nid, episode_uuid, resp) ==
    LET attempt == make_req(tok,
            "https://podcast-api.pocketcasts.com/episode/show_notes/" \o episode_uuid,
            "GET", NoneV, resp) IN
    IF attempt.err # "" THEN Raised(attempt.err, attempt.io, nid)
    ELSE IF JsonKeyErr(resp, "show_notes") # ""
         THEN Raised(JsonKeyErr(resp, "show_notes"), attempt.io, nid)
    ELSE Returned(resp.json.show_notes, attempt.io, nid)

(* Podcast objects the caller can pass in: one it made itself, or the one
   the preceding get_podcast call returned *)
CallerPods ==
    {Podcast(nextId, u, <<>>) : u \in PodUUIDs}
        \cup (IF lastOp = "get_podcast" /\ err = "" THEN {result} ELSE {})

AfterArg(pod) == IF pod.oid = nextId THEN nextId + 1 ELSE nextId

CallerEpisodes(pod) ==
    {Episode("e1", pod, [playing_status |-> s]) : s \in {0, 2}}

SortOrders == {2, 3}

DetailResponses ==
    {TransportFail, Json([podcast |-> [title |-> "t"]])}
        \cup {Json([podcast |-> [uuid |-> u, title |-> "t"]]) : u \in PayloadUUIDs}

EpEntries == {[uuid |-> e, title |-> "t"] : e \in EpUUIDs} \cup {[title |-> "t"]}

EpisodesResponses ==
    {TransportFail, Json([podcast |-> [title |-> "t"]])}
        \cup {Json([podcast |-> [title |-> "t", episodes |-> s]]) :
                 s \in SeqsUpTo(EpEntries, MaxEps)}

EpisodeResponses ==
    {TransportFail, TextBody, Json([title |-> "t"])}
        \cup {Json([uuid |-> e, title |-> "t"]) : e \in EpUUIDs}

NotesResponses == {TransportFail, Json([error |-> "x"]), Json([show_notes |-> "notes"])}

GetPodcast ==
    /\ CanCall
    /\ \E uuid \in PodUUIDs, resp \in DetailResponses \cup {Json([error |-> "x"])} :
         Done("get_podcast", [uuid |-> uuid], get_podcast(authtoken, nextId, uuid, resp))

GetPodcastEpisodes ==
    /\ CanCall
    /\ \E pod \in CallerPods, sort \in SortOrders, resp \in EpisodesResponses :
         Done("get_podcast_episodes", [pod |-> pod, sort |-> sort],
              get_podcast_episodes(authtoken, AfterArg(pod), pod, sort, resp))

GetEpisode ==
    /\ CanCall
    /\ \E pod \in CallerPods, e_uuid \in EpUUIDs, resp \in EpisodeResponses :
         Done("get_episode", [pod |-> pod, e_uuid |-> e_uuid], get_episode(authtoken, AfterArg(pod), pod, e_uuid, resp))

(* get_episode_notes that logs in again when its request fails *)
GetEpisodeNotesRelogin ==
    /\ CanCall
    /\ \E e_uuid \in EpUUIDs, resp \in NotesResponses, again \in LoginResponses :
         LET r == get_episode_notes(authtoken, nextId, e_uuid, resp)
             l == _login(authtoken, username, password, again)
         IN
         IF r.err = ""
         THEN Done("get_episode_notes", [episode_uuid |-> e_uuid], r)
         ELSE /\ lastOp' = "get_episode_notes"
              /\ lastArgs' = [episode_uuid |-> e_uuid]
              /\ err' = r.err
              /\ result' = NoneV
              /\ io' = r.io \o l.io
              /\ authtoken' = l.token
              /\ logins' = logins + LoginCount(r.io \o l.io)
              /\ prevNested' = FALSE
              /\ prevPods' = {}
              /\ ncalls' = ncalls + 1
              /\ UNCHANGED <<phase, username, password>>

GetEpisodeNotes ==
    /\ CanCall
    /\ \E e_uuid \in EpUUIDs, resp \in NotesResponses :
         Done("get_episode_notes", [episode_uuid |-> e_uuid], get_episode_notes(authtoken, nextId, e_uuid, resp))

----------------------------------------------------------------------------
(* update_starred, update_playing_status, update_played_position,
   subscribe_podcast, unsubscribe_podcast *)

SyncUrl == "https://api.pocketcasts.com/sync/update_episode"

(* a method whose body ends with a _make_req call whose response it ignores *)
FireAndForget(tok, nid, url, data, resp) ==
    LET attempt == make_req(tok, url, "JSON", data, resp) IN
    IF attempt.err # "" THEN Raised(attempt.err, attempt.io, nid)
    ELSE Returned(NoneV, attempt.io, nid)

update_starred(tok, nid, podcast, episode, starred, resp) ==
    FireAndForget(tok, nid, "https://api.pocketcasts.com/sync/update_episode_star",
        Dict([star |-> starred, podcast |-> podcast.uuid, uuid |-> episode.uuid]), resp)

(* update_playing_status without the status check *)
update_playing_status_unchecked(tok, nid, podcast, episode, status, resp) ==
    FireAndForget(tok, nid, SyncUrl,
        Dict([status |-> status, podcast |-> podcast.uuid, uuid |-> episode.uuid]), resp)

update_playing_status(tok, nid, podcast, episode, status, resp) ==
    IF status \notin {0, 2, 3} THEN Raised("Invalid status.", <<>>, nid)
    ELSE FireAndForget(tok, nid, SyncUrl,
            Dict([status |-> status, podcast |-> podcast.uuid, uuid |-> episode.uuid]), resp)

(* update_played_position that does not look at the response's status *)
update_played_position_unverified(tok, nid, podcast, episode, position, resp) ==
    LET data == Dict([status |-> episode.kw.playing_status, podcast |-> podcast.uuid,
                      uuid |-> episode.uuid, position |-> position])
        attempt == make_req(tok, SyncUrl, "JSON", data, resp) IN
    IF attempt.err # "" THEN Raised(attempt.err, attempt.io, nid)
    ELSE IF JsonKeyErr(resp, "status") # ""
         THEN Raised(JsonKeyErr(resp, "status"), attempt.io, nid)
    ELSE Returned(TRUE, attempt.io, nid)

update_played_position(tok, nid, podcast, episode, position, resp) ==
    LET data == Dict([status |-> episode.kw.playing_status, podcast |-> podcast.uuid,
                      uuid |-> episode.uuid, position |-> position])
        attempt == make_req(tok, SyncUrl, "JSON", data, resp) IN
    IF attempt.err # "" THEN Raised(attempt.err, attempt.io, nid)
    ELSE IF JsonKeyErr(resp, "status") # ""
         THEN Raised(JsonKeyErr(resp, "status"), attempt.io, nid)
    ELSE IF resp.json.status # "ok" THEN Raised("Sorry your update failed.", attempt.io, nid)
    ELSE Returned(TRUE, attempt.io, nid)

subscribe_podcast(tok, nid, podcast, resp) ==
    FireAndForget(tok, nid, "https://api.pocketcasts.com/user/podcast/subscribe",
        Dict([uuid |-> podcast.uuid]), resp)

unsubscribe_podcast(tok, nid, podcast, resp) ==
    FireAndForget(tok, nid, "https://api.pocketcasts.com/user/podcast/unsubscribe",
        Dict([uuid |-> podcast.uuid]), resp)

StatusArgs == {0, 1, 2, 3, 4}
Positions == {0, 30}

UpdateResponses ==
    {TransportFail, Json([error |-> "x"])}
        \cup {Json([status |-> s]) : s \in {"ok", "OK", "error"}}

(* responses to the calls that do not read the response *)
IgnoredResponses == {TransportFail, Json([status |-> "ok"])}

UpdateStarred ==
    /\ CanCall
    /\ \E pod \in CallerPods, starred \in {0, 1}, resp \in IgnoredResponses :
         \E episode \in CallerEpisodes(pod) :
            Done("update_starred", [podcast |-> pod, episode |-> episode, starred |-> starred],
                 update_starred(authtoken, AfterArg(pod), pod, episode, starred, resp))

UpdatePlayingStatus ==
    /\ CanCall
    /\ \E pod \in CallerPods, status \in StatusArgs, resp \in IgnoredResponses :
         \E episode \in CallerEpisodes(pod) :
            Done("update_playing_status", [podcast |-> pod, episode |-> episode, status |-> status],
                 update_playing_status(authtoken, AfterArg(pod), pod, episode, status, resp))

UpdatePlayedPosition ==
    /\ CanCall
    /\ \E pod \in CallerPods, position \in Positions, resp \in UpdateResponses :
         \E episode \in CallerEpisodes(pod) :
            Done("update_played_position", [podcast |-> pod, episode |-> episode, position |-> position],
                 update_played_position(authtoken, AfterArg(pod), pod, episode, position, resp))

SubscribePodcast ==
    /\ CanCall
    /\ \E pod \in CallerPods, resp \in IgnoredResponses :
         Done("subscribe_podcast", [podcast |-> pod], subscribe_podcast(authtoken, AfterArg(pod), pod, resp))

UnsubscribePodcast ==
    /\ CanCall
    /\ \E pod \in CallerPods, resp \in IgnoredResponses :
         Done("unsubscribe_podcast", [podcast |-> pod], unsubscribe_podcast(authtoken, AfterArg(pod), pod, resp))

----------------------------------------------------------------------------
(* get_new_releases, get_in_progress, get_starred, get_up_next *)

(* if pod_uuid not in podcasts *)
MissAlways(pod_uuid, podcasts) == TRUE

Miss(pod_uuid, podcasts) == pod_uuid \notin DOMAIN podcasts

(* podcasts = {} at the start of the method *)
MemoOfLastCall ==
    LET held == IF lastOp \in NestedOps /\ err = "" THEN PodsOf(result) ELSE {} IN
    [u \in {p.uuid : p \in held} |-> CHOOSE p \in held : p.uuid = u]

EmptyMemo == <<>>

(* The loop, leaving out the episodes whose podcast could not be fetched *)
RECURSIVE ResolveLoopSkips(_, _, _, _, _, _, _, _, _, _)
ResolveLoopSkips(tok, entries, i, key, popkey, podcasts, results, sent, nid, detail) ==
    IF i > Len(entries) THEN Returned(results, sent, nid)
    ELSE IF ~Has(entries[i], key) THEN Raised("KeyError", sent, nid)
    ELSE
      LET episode == entries[i]
          pod_uuid == episode[key]
          miss == Miss(pod_uuid, podcasts)
          got == get_podcast(tok, nid, pod_uuid, detail[pod_uuid])
          sent1 == IF miss THEN sent \o got.io ELSE sent
          nid1 == IF miss THEN got.nid ELSE nid
      IN
      IF miss /\ got.err # ""
      THEN ResolveLoopSkips(tok, entries, i + 1, key, popkey, podcasts, results,
                            sent1, nid1, detail)
      ELSE
        LET podcasts1 == IF miss THEN (pod_uuid :> got.value) @@ podcasts ELSE podcasts
            kw == IF popkey THEN Pop(Pop(episode, "uuid"), key) ELSE Pop(episode, "uuid")
        IN
        IF ~Has(episode, "uuid") THEN Raised("KeyError", sent1, nid1)
        ELSE ResolveLoopSkips(tok, entries, i + 1, key, popkey, podcasts1,
                Append(results, Episode(episode.uuid, podcasts1[pod_uuid], kw)),
                sent1, nid1, detail)

(* The loop over attempt.json()['episodes'].  key is the entry's field that
   holds the podcast UUID, popkey tells whether that field is popped before
   the Episode is built (get_up_next), podcasts is the memo dictionary,
   detail[u] is the server's response to the podcast-detail request for u. *)
RECURSIVE ResolveLoop(_, _, _, _, _, _, _, _, _, _)
ResolveLoop(tok, entries, i, key, popkey, podcasts, results, sent, nid, detail) ==
    IF i > Len(entries) THEN Returned(results, sent, nid)
    ELSE IF ~Has(entries[i], key) THEN Raised("KeyError", sent, nid)
    ELSE
      LET episode == entries[i]
          pod_uuid == episode[key]
          miss == Miss(pod_uuid, podcasts)
          got == get_podcast(tok, nid, pod_uuid, detail[pod_uuid])
          sent1 == IF miss THEN sent \o got.io ELSE sent
          nid1 == IF miss THEN got.nid ELSE nid
      IN
      IF miss /\ got.err # "" THEN Raised(got.err, sent1, nid1)
      ELSE
        LET podcasts1 == IF miss THEN (pod_uuid :> got.value) @@ podcasts ELSE podcasts
            kw == IF popkey THEN Pop(Pop(episode, "uuid"), key) ELSE Pop(episode, "uuid")
        IN
        IF ~Has(episode, "uuid") THEN Raised("KeyError", sent1, nid1)
        ELSE ResolveLoop(tok, entries, i + 1, key, popkey, podcasts1,
                Append(results, Episode(episode.uuid, podcasts1[pod_uuid], kw)),
                sent1, nid1, detail)

Resolve(tok, nid, url, data, key, popkey, resp, detail) ==
    LET attempt == make_req(tok, url, "JSON", data, resp) IN
    IF attempt.err # "" THEN Raised(attempt.err, attempt.io, nid)
    ELSE IF JsonKeyErr(resp, "episodes") # ""
         THEN Raised(JsonKeyErr(resp, "episodes"), attempt.io, nid)
    ELSE ResolveLoop(tok, resp.json.episodes, 1, key, popkey, EmptyMemo, <<>>,
                     attempt.io, nid, detail)

get_new_releases(tok, nid, resp, detail) ==
    Resolve(tok, nid, "https://api.pocketcasts.com/user/new_releases", NoneV,
            "podcastUuid", FALSE, resp, detail)

get_in_progress(tok, nid, resp, detail) ==
    Resolve(tok, nid, "https://api.pocketcasts.com/user/in_progress", NoneV,
            "podcastUuid", FALSE, resp, detail)

get_starred(tok, nid, resp, detail) ==
    Resolve(tok, nid, "https://api.pocketcasts.com/user/starred", NoneV,
            "podcastUuid", FALSE, resp, detail)

get_up_next(tok, nid, resp, detail) ==
    Resolve(tok, nid, "https://api.pocketcasts.com/up_next/list", Dict([version |-> 2]),
            "podcast", TRUE, resp, detail)

(* The server's list: the k-th entry is episode EpNames[k] of podcast pods[k] *)
UserList(key, pods) == [k \in 1..Len(pods) |-> ("uuid" :> EpNames[k]) @@ (key :> pods[k])]

UserListResponses(key) ==
    {TransportFail, Json([error |-> "x"])}
        \cup {Json([episodes |-> UserList(key, pods)]) : pods \in SeqsUpTo(PodUUIDs, MaxEps)}

(* The podcast UUIDs a list response names: the only detail requests the
   method can send *)
Named(resp, key) ==
    IF JsonKeyErr(resp, "episodes") # "" THEN {}
    ELSE {resp.json.episodes[k][key] : k \in DOMAIN resp.json.episodes}

Details(resp, key) == [Named(resp, key) -> DetailResponses]

GetNewReleases ==
    /\ CanCall
    /\ \E resp \in UserListResponses("podcastUuid") : \E detail \in Details(resp, "podcastUuid") :
         Done("get_new_releases", NoneV, get_new_releases(authtoken, nextId, resp, detail))

GetInProgress ==
    /\ CanCall
    /\ \E resp \in UserListResponses("podcastUuid") : \E detail \in Details(resp, "podcastUuid") :
         Done("get_in_progress", NoneV, get_in_progress(authtoken, nextId, resp, detail))

GetStarred ==
    /\ CanCall
    /\ \E resp \in UserListResponses("podcastUuid") : \E detail \in Details(resp, "podcastUuid") :
         Done("get_starred", NoneV, get_starred(authtoken, nextId, resp, detail))

GetUpNext ==
    /\ CanCall
    /\ \E resp \in UserListResponses("podcast") : \E detail \in Details(resp, "podcast") :
         Done("get_up_next", NoneV, get_up_next(authtoken, nextId, resp, detail))

----------------------------------------------------------------------------
(* _make_req called on its own, with any method selector and payload *)

Methods == {"GET", "JSON", "PUT"}
Payloads == {NoneV, Dict(<<>>), Dict([v |-> 2]), Dict([v |-> 2, term |-> "news"])}

MakeReq ==
    /\ CanCall
    /\ \E method \in Methods, data \in Payloads, resp \in {TransportFail, Json([status |-> "ok"])} :
         LET r == make_req(authtoken, "https://api.pocketcasts.com/any", method, data, resp) IN
         Done("_make_req", [method |-> method, data |-> data], IF r.err # "" THEN Raised(r.err, r.io, nextId)
                           ELSE Returned(resp, r.io, nextId))

----------------------------------------------------------------------------

Init ==
    /\ phase = "new"
    /\ username = ""
    /\ password = ""
    /\ authtoken = ""
    /\ lastOp = ""
    /\ lastArgs = NoneV
    /\ err = ""
    /\ result = NoneV
    /\ io = <<>>
    /\ prevPods = {}
    /\ prevNested = FALSE
    /\ logins = 0
    /\ ncalls = 0

Next ==
    \/ Construct
    \/ GetTopCharts
    \/ GetFeatured
    \/ GetTrending
    \/ GetEpisode
    \/ GetPodcast
    \/ GetPodcastEpisodes
    \/ GetEpisodeNotes
    \/ GetSubscribedPodcasts
    \/ GetNewReleases
    \/ GetInProgress
    \/ GetStarred
    \/ GetUpNext
    \/ UpdateStarred
    \/ UpdatePlayingStatus
    \/ UpdatePlayedPosition
    \/ SubscribePodcast
    \/ UnsubscribePodcast
    \/ SearchPodcasts
    \/ MakeReq

Spec == Init /\ [][Next]_vars

----------------------------------------------------------------------------
(* What the most recent call did *)

Returns == err = ""
Raises == err # ""

DetailUrls == {PodcastUrl(u) : u \in PodUUIDs}
DetailRequests == {i \in DOMAIN io : io[i].req.verb = "GET" /\ io[i].req.url \in DetailUrls}

KeyOf(op) == IF op = "get_up_next" THEN "podcast" ELSE "podcastUuid"

(* The episode list the server gave to the most recent resolving method *)
ListedEpisodes == io[1].resp.json.episodes
ListedUUIDs == {ListedEpisodes[k][KeyOf(lastOp)] : k \in DOMAIN ListedEpisodes}

----------------------------------------------------------------------------
(* C1: when the login response carries a token, __init__ returns and the
   stored token is that non-empty token; when the login response carries no
   token, __init__ raises "Login Failed" and the stored token is still the
   initial empty string. *)
C1_LoginStoresToken ==
    lastOp = "__init__" =>
        /\ Len(io) = 1
        /\ io[1].req.url = LoginUrl
        /\ LET resp == io[1].resp IN
           /\ (resp.kind # "fail" /\ JsonKeyErr(resp, "token") = "") =>
                 /\ Returns /\ phase = "ready"
                 /\ authtoken = resp.json.token /\ authtoken # ""
           /\ (resp.kind # "fail" /\ JsonKeyErr(resp, "token") # "") =>
                 /\ err = "Login Failed" /\ phase = "failed"
                 /\ authtoken = ""

C1_Witness ==
    /\ lastOp = "__init__"
    /\ io[1].resp.kind = "json"
    /\ ~Has(io[1].resp.json, "token")
    /\ err = "Login Failed"

(* C2: update_playing_status with a status outside {0, 2, 3} raises
   "Invalid status." having sent no request, whatever the podcast and
   episode; with a status in {0, 2, 3} it sends exactly one request. *)
C2_StatusCheckedBeforeRequest ==
    lastOp = "update_playing_status" =>
        IF lastArgs.status \in {0, 2, 3}
        THEN Len(io) = 1 /\ io[1].req.url = SyncUrl /\ io[1].req.body.status = lastArgs.status
        ELSE err = "Invalid status." /\ io = <<>>

C2_Witness ==
    /\ lastOp = "update_playing_status"
    /\ lastArgs.status \notin {0, 2, 3}
    /\ err = "Invalid status."

(* C3: update_played_position sends exactly one request; it returns (True)
   exactly when the response carries status "ok", and with any other status
   value it raises "Sorry your update failed." and returns nothing. *)
C3_PositionConfirmed ==
    lastOp = "update_played_position" =>
        /\ Len(io) = 1
        /\ LET resp == io[1].resp
               hasStatus == resp.kind = "json" /\ Has(resp.json, "status") IN
           /\ Returns <=> (hasStatus /\ resp.json.status = "ok")
           /\ Returns => result = TRUE
           /\ (hasStatus /\ resp.json.status # "ok") => err = "Sorry your update failed."

C3_Witness ==
    /\ lastOp = "update_played_position"
    /\ io[1].resp.kind = "json"
    /\ Has(io[1].resp.json, "status")
    /\ io[1].resp.json.status = "OK"
    /\ err = "Sorry your update failed."

(* C4: whenever the server answers get_podcast(uuid) with a podcast payload,
   with the same uuid, another uuid or no uuid field, get_podcast returns a
   Podcast whose uuid is the argument. *)
C4_PodcastKeepsInputUuid ==
    (/\ lastOp = "get_podcast"
     /\ io[1].resp.kind = "json"
     /\ Has(io[1].resp.json, "podcast")) =>
        Returns /\ result.uuid = lastArgs.uuid

(* C5: a resolving method that returns has sent one podcast-detail request
   for each distinct podcast UUID of the server's episode list and no other;
   it returns one Episode per entry, each linked to a Podcast carrying the
   entry's podcast UUID, and two Episodes are linked to the same Podcast
   object exactly when their podcast UUIDs are equal. *)
C5_OneDetailRequestPerUuid ==
    (lastOp \in NestedOps /\ Returns) =>
        /\ Cardinality(DetailRequests) = Cardinality(ListedUUIDs)
        /\ DetailRequests = 2..Len(io)
        /\ {io[i].req.url : i \in DetailRequests} = {PodcastUrl(u) : u \in ListedUUIDs}
        /\ Len(result) = Len(ListedEpisodes)
        /\ \A k \in DOMAIN result :
              /\ result[k].uuid = ListedEpisodes[k].uuid
              /\ result[k].podcast.uuid = ListedEpisodes[k][KeyOf(lastOp)]
        /\ \A j, k \in DOMAIN result :
              (result[j].podcast.oid = result[k].podcast.oid)
                  <=> (result[j].podcast.uuid = result[k].podcast.uuid)
        /\ Cardinality({p.oid : p \in PodsOf(result)}) = Cardinality(ListedUUIDs)

C5_Witness ==
    /\ lastOp \in NestedOps /\ Returns
    /\ Len(result) = MaxEps
    /\ Cardinality(ListedUUIDs) < Len(result)
    /\ Cardinality(DetailRequests) = Cardinality(ListedUUIDs)

(* C6: get_podcast_episodes(pod, sort) that returns gives one Episode per
   entry of the server's episode list, in the server's order, each linked to
   the Podcast object pod itself, for both sort values. *)
C6_EpisodesLinkedToArgument ==
    (lastOp = "get_podcast_episodes" /\ Returns) =>
        LET listed == io[1].resp.json.podcast.episodes IN
        /\ Len(result) = Len(listed)
        /\ \A k \in DOMAIN result :
              /\ result[k].uuid = listed[k].uuid
              /\ result[k].podcast = lastArgs.pod

C6_Witness ==
    /\ lastOp = "get_podcast_episodes" /\ Returns
    /\ lastArgs.sort = 2
    /\ Len(result) = 2
    /\ result[1].uuid # result[2].uuid
    /\ result[1].podcast.oid = lastArgs.pod.oid

(* C7: every request sent carries the header Authorization = "Bearer "
   followed by the token the client held when it sent it (the initial empty
   token for the login request, the login token afterwards), and the body
   of every POST has v = 1, also when the payload was missing or had a v. *)
C7_AuthHeaderAndVersion ==
    \A i \in DOMAIN io :
        LET req == io[i].req
            held == IF lastOp = "__init__" THEN "" ELSE authtoken IN
        /\ req.headers.Authorization = "Bearer " \o held
        /\ lastOp # "__init__" => held \in Tokens
        /\ req.verb = "POST" => (Has(req.body, "v") /\ req.body.v = 1)

C7_Witness ==
    /\ lastOp = "_make_req"
    /\ lastArgs.method = "JSON"
    /\ Has(lastArgs.data, "dict")
    /\ Has(lastArgs.data.dict, "v")
    /\ lastArgs.data.dict.v = 2
    /\ Len(io) = 1
    /\ io[1].req.body.v = 1
    /\ io[1].req.headers.Authorization = "Bearer " \o authtoken

(* C8: once __init__ has returned, no method call changes the stored token
   or sends a login request, whether the call returns or raises, so one
   login request is sent per client. *)
C8_TokenReadOnlyAfterLogin ==
    [][phase = "ready" =>
          /\ authtoken' = authtoken
          /\ \A i \in DOMAIN io' : io'[i].req.url # LoginUrl
          /\ logins = 1 /\ logins' = 1]_vars

C8_Witness ==
    /\ phase = "ready"
    /\ ncalls = MaxCalls
    /\ Raises
    /\ Len(io) > 0
    /\ authtoken \in Tokens
    /\ logins = 1

(* C9: a resolving method that returns right after another resolving method
   returned has sent a podcast-detail request for every distinct podcast UUID
   of its own list, those the earlier call resolved included, and none of the
   Podcast objects it returns is one the earlier call returned. *)
C9_MemoNotSharedAcrossCalls ==
    (prevNested /\ lastOp \in NestedOps /\ Returns) =>
        /\ {io[i].req.url : i \in DetailRequests} = {PodcastUrl(u) : u \in ListedUUIDs}
        /\ Cardinality(DetailRequests) = Cardinality(ListedUUIDs)
        /\ \A p \in PodsOf(result), q \in prevPods : p.oid # q.oid

C9_Witness ==
    /\ prevNested /\ lastOp \in NestedOps /\ Returns
    /\ \E p \in PodsOf(result), q \in prevPods : p.uuid = q.uuid /\ p.oid # q.oid

(* A request of a resolving method failed: the transport raised, or the
   response lacks what the method reads from it *)
RequestFailed(i) ==
    \/ io[i].resp.kind = "fail"
    \/ i = 1 /\ JsonKeyErr(io[i].resp, "episodes") # ""
    \/ i > 1 /\ JsonKeyErr(io[i].resp, "podcast") # ""
    \/ i > 1 /\ JsonKeyErr(io[i].resp, "podcast") = "" /\ ~Has(io[i].resp.json.podcast, "uuid")

(* C10: when a request of a resolving method fails (RequestFailed), the method raises,
   the failed request is the last one it sent and it was sent once. *)
C10_ErrorsAreFatal ==
    lastOp \in NestedOps =>
        /\ \A i \in DOMAIN io :
              RequestFailed(i) =>
                  /\ Raises
                  /\ i = Len(io)
                  /\ \A j \in DOMAIN io : j # i => io[j].req # io[i].req
        /\ Raises => (Len(io) > 0 /\ RequestFailed(Len(io)))

C10_Witness ==
    /\ lastOp \in NestedOps
    /\ Raises
    /\ Len(io) = 2
    /\ io[2].resp.kind = "fail"
    /\ Cardinality(ListedUUIDs) = 2

====
